---- MODULE Spec2Model ----
(***************************************************************************)
(* A model of CharitiesFinderV1's row-to-paragraph conversion and batching *)
(* pipeline (src/processors/text_converter.py, class TextConverter).       *)
(*                                                                         *)
(* Texts.  A Python str is modelled as a sequence of atoms.  An atom is    *)
(* either one character ("a", " ", "\n") or one fixed fragment of an       *)
(* f-string template ("is a", "charitable organization").  A fragment      *)
(* never starts or ends with a blank: the blanks around it are atoms of    *)
(* their own, so that strip(), the emptiness tests and the joins act on a  *)
(* text exactly where they act on the Python string.  Flat(t) is the       *)
(* Python string itself.                                                   *)
(*                                                                         *)
(* Cell values.  A cell of a DataFrame (a value of a row dict) is a        *)
(* record [kind, s]: a str (kind "str", text s), None, float NaN or        *)
(* pandas.NA, whose truth value raises TypeError.                          *)
(*                                                                         *)
(* DataFrames.  [columns, index, data]: the set of column labels, the      *)
(* sequence of index labels and the sequence of rows, each row a function  *)
(* from the column labels to cell values.  A row dict is a function from   *)
(* the keys it holds to cell values.                                       *)
(*                                                                         *)
(* Further sections model chunk_text (src/utils/helpers.py), and rag_query *)
(* with its two callers, the dashboard and the chat page                   *)
(* (src/streamlit_app_v2.py), each as a specification of its own.          *)
(***************************************************************************)
EXTENDS Integers, Sequences, FiniteSets, TLC

VARIABLES
    df,       \* the DataFrame a call of the pipeline is made on
    input_row, \* the row dict a call of charity_to_paragraph is made on
    call,     \* the call made: the method and its other arguments
    ret,      \* what the call returned or raised
    batches,  \* the slices [start_idx, end_idx) the loop of batch_process took
    chunker,  \* a run of chunk_text: its arguments, locals and position
    rag,      \* a run of rag_query: its arguments, locals, position and caller
    session   \* st.session_state of the chat page, and the form last submitted

vars == <<df, input_row, call, ret, batches, chunker, rag, session>>

\* the state of the converter
converter == <<df, input_row, call, ret, batches>>

\* the state of what runs apart from the converter
rest == <<chunker, rag, session>>

\* no run of chunk_text
NoChunker ==
    [text |-> <<>>, chunk_size |-> 0, overlap |-> 0, start |-> 0,
     chunks |-> <<>>, spans |-> <<>>, pc |-> "none"]

\* None, for a local or a result that holds no value
Unset == [from |-> "none", rows |-> "None"]

\* no run of rag_query
NoRag ==
    [caller |-> "none", user_query |-> "", use_vector_search |-> FALSE,
     gemini_model |-> "None", pc |-> "none", query_embedding |-> "unset",
     results |-> Unset, searches |-> <<>>, formatted_context |-> <<>>,
     response |-> [k \in {} |-> <<>>], display |-> "none"]

\* the chat page not opened
NoSession == [messages |-> <<>>, event |-> "none"]

\* nothing runs apart from the converter
RestIdle == chunker = NoChunker /\ rag = NoRag /\ session = NoSession

----------------------------------------------------------------------------
(* Bounds of the model. *)

\* most rows of an input DataFrame
MaxRows == 3

\* largest batch_size a call is made with (the smallest is -1)
MaxBatch == 4
MaxHeaderRows == 7

\* longest text chunk_text is run on, largest chunk_size (the smallest is 1)
\* and largest overlap (the smallest is -1)
MaxText == 5
MaxChunkSize == 3
MaxOverlap == 3

\* most messages sent in the chat before it is cleared
MaxTurns == 3

----------------------------------------------------------------------------
(* Python values and str operations *)

Str(s) == [kind |-> "str", s |-> s]

PyNone == [kind |-> "None", s |-> <<>>]

NaN == [kind |-> "NaN", s |-> <<>>]

NA == [kind |-> "NA", s |-> <<>>]

\* bool(v) raises (pandas.NA: "boolean value of NA is ambiguous")
TruthRaises(v) == v.kind = "NA"

\* bool(v), where it is defined
Truthy(v) ==
    CASE v.kind = "str" -> v.s # <<>>
      [] v.kind = "None" -> FALSE
      [] OTHER -> TRUE

\* str(v)
PyStr(v) ==
    CASE v.kind = "str" -> v.s
      [] v.kind = "None" -> <<"N", "o", "n", "e">>
      [] v.kind = "NaN" -> <<"n", "a", "n">>
      [] OTHER -> <<"<", "N", "A", ">">>

UpperCase ==
    <<"A", "B", "C", "D", "E", "F", "G", "H", "I", "J", "K", "L", "M",
      "N", "O", "P", "Q", "R", "S", "T", "U", "V", "W", "X", "Y", "Z">>

LowerCase ==
    <<"a", "b", "c", "d", "e", "f", "g", "h", "i", "j", "k", "l", "m",
      "n", "o", "p", "q", "r", "s", "t", "u", "v", "w", "x", "y", "z">>

LowerChar(c) ==
    IF \E i \in 1..Len(UpperCase) : UpperCase[i] = c
    THEN LowerCase[CHOOSE i \in 1..Len(UpperCase) : UpperCase[i] = c]
    ELSE c

\* s.lower()
Lower(s) == [i \in 1..Len(s) |-> LowerChar(s[i])]

IsSpace(c) == c \in {" ", "\t", "\n", "\r"}

RECURSIVE LStrip(_)
LStrip(s) == IF s # <<>> /\ IsSpace(Head(s)) THEN LStrip(Tail(s)) ELSE s

RECURSIVE RStrip(_)
RStrip(s) ==
    IF s # <<>> /\ IsSpace(s[Len(s)]) THEN RStrip(SubSeq(s, 1, Len(s) - 1)) ELSE s

\* s.strip()
Strip(s) == RStrip(LStrip(s))

\* s.replace(old, " ") for a one-character old
ReplaceChar(s, old) == [i \in 1..Len(s) |-> IF s[i] = old THEN " " ELSE s[i]]

\* "  " in s
HasDoubleSpace(s) == \E i \in 1..(Len(s) - 1) : s[i] = " " /\ s[i + 1] = " "

\* s.replace("  ", " "): one pass, left to right, over non-overlapping matches
RECURSIVE ReplaceDoubleSpace(_)
ReplaceDoubleSpace(s) ==
    IF Len(s) < 2 THEN s
    ELSE IF s[1] = " " /\ s[2] = " "
         THEN <<" ">> \o ReplaceDoubleSpace(SubSeq(s, 3, Len(s)))
         ELSE <<s[1]>> \o ReplaceDoubleSpace(Tail(s))

\* a single replace("  ", " ") instead of the loop
CollapseSpaces_OnePass(s) == ReplaceDoubleSpace(s)

\* while "  " in s: s = s.replace("  ", " ")
RECURSIVE CollapseSpaces(_)
CollapseSpaces(s) ==
    IF HasDoubleSpace(s) THEN CollapseSpaces(ReplaceDoubleSpace(s)) ELSE s

\* str(n) for an integer n >= 0
RECURSIVE ToDecimal(_)
ToDecimal(n) ==
    LET digit == <<"0", "1", "2", "3", "4", "5", "6", "7", "8", "9">>[(n % 10) + 1]
    IN IF n < 10 THEN <<digit>> ELSE ToDecimal(n \div 10) \o <<digit>>

\* sep.join(texts)
RECURSIVE Join(_, _)
Join(texts, sep) ==
    IF texts = <<>> THEN <<>>
    ELSE IF Len(texts) = 1 THEN texts[1]
    ELSE texts[1] \o sep \o Join(Tail(texts), sep)

\* the Python string a text stands for
RECURSIVE Flat(_)
Flat(t) == IF t = <<>> THEN "" ELSE Head(t) \o Flat(Tail(t))

\* range(start, stop, step) for step # 0, as a sequence
RECURSIVE PyRange(_, _, _)
PyRange(start, stop, step) ==
    IF (step > 0 /\ start < stop) \/ (step < 0 /\ start > stop)
    THEN <<start>> \o PyRange(start + step, stop, step)
    ELSE <<>>

Min(a, b) == IF a <= b THEN a ELSE b

\* a function result: a returned value, or an exception raised
Return(v) == [raised |-> FALSE, value |-> v]

Raise(e) == [raised |-> TRUE, value |-> e]

----------------------------------------------------------------------------
(* Row dicts and DataFrames *)

\* row.get(key, default)
Get(row, key, default) == IF key \in DOMAIN row THEN row[key] ELSE default

\* name.lower() for the column labels the converter looks up
LowerName(name) ==
    CASE name = "Name of Organisation" -> "name of organisation"
      [] name = "Type" -> "type"
      [] name = "UEN" -> "uen"
      [] name = "IPC Period" -> "ipc period"
      [] name = "Sector" -> "sector"
      [] name = "Classification" -> "classification"
      [] name = "Activities" -> "activities"
      [] OTHER -> name

\* len(df)
DfLen(d) == Len(d.data)

\* df.empty: any axis of length 0
DfEmpty(d) == Len(d.data) = 0 \/ d.columns = {}

\* ILoc with the labels renumbered from 0, as after reset_index(drop=True)
ILoc_ResetIndex(d, start, end) ==
    [d EXCEPT !.index = [k \in 1..(Min(end, Len(@)) - start) |-> k - 1],
              !.data = SubSeq(@, start + 1, Min(end, Len(@)))]

\* df.iloc[start:end] for 0 <= start: the slice stops at the last row, and the
\* rows keep their index labels
ILoc(d, start, end) ==
    [d EXCEPT !.index = SubSeq(@, start + 1, Min(end, Len(@))),
              !.data = SubSeq(@, start + 1, Min(end, Len(@)))]

\* pandas' missing values: None, NaN, NA
IsNull(v) == v.kind \in {"None", "NaN", "NA"}

\* the copy left as it is, no value filled
FillNa_Nothing(d) == d

\* df.copy() followed by df_copy[col] = df_copy[col].fillna('') for every column
FillNa(d) ==
    [d EXCEPT !.data =
        [k \in 1..Len(d.data) |->
            [c \in d.columns |->
                IF IsNull(d.data[k][c]) THEN Str(<<>>) ELSE d.data[k][c]]]]

\* df[name] as a sequence of cells
Column(d, name) == [k \in 1..Len(d.data) |-> d.data[k][name]]

\* series.dropna()
RECURSIVE DropNa(_)
DropNa(s) ==
    IF s = <<>> THEN <<>>
    ELSE (IF IsNull(Head(s)) THEN <<>> ELSE <<Head(s)>>) \o DropNa(Tail(s))

\* series.unique(): the distinct values in order of first occurrence
RECURSIVE UniqueFrom(_, _)
UniqueFrom(s, seen) ==
    IF s = <<>> THEN <<>>
    ELSE IF Head(s) \in seen THEN UniqueFrom(Tail(s), seen)
    ELSE <<Head(s)>> \o UniqueFrom(Tail(s), seen \cup {Head(s)})

Unique(s) == UniqueFrom(s, {})

----------------------------------------------------------------------------
(* TextConverter *)

NullText == <<"n", "u", "l", "l">>

\* Present without the test of str(v).strip()
Present_NoStripTest(v) ==
    /\ Truthy(v)
    /\ Lower(PyStr(v)) # NullText

\* v and str(v).lower() != 'null' and str(v).strip() != ''
\* (evaluated only for a v whose truth value does not raise)
Present(v) ==
    /\ Truthy(v)
    /\ Lower(PyStr(v)) # NullText
    /\ Strip(PyStr(v)) # <<>>

\* row.get(exact, row.get(exact.lower(), ''))
Resolve(row, exact) == Get(row, exact, Get(row, LowerName(exact), Str(<<>>)))

\* the seven values charity_to_paragraph reads from the row, in its order
ResolvedFields(row) ==
    <<Resolve(row, "Name of Organisation"), Resolve(row, "Type"),
      Resolve(row, "UEN"), Resolve(row, "IPC Period"), Resolve(row, "Sector"),
      Resolve(row, "Classification"), Resolve(row, "Activities")>>

\* Opening with the named wording of the identifier in the unnamed sentence too
Opening_SameIdentifierWording(name, charity_status, uen) ==
    (IF Present(name)
     THEN (IF Present(charity_status)
           THEN PyStr(name) \o <<" ", "is a", " ">> \o PyStr(charity_status) \o <<" ">>
           ELSE PyStr(name) \o <<" ", "is a charitable organization", " ">>)
     ELSE (IF Present(charity_status)
           THEN <<"An unnamed", " ">> \o PyStr(charity_status) \o <<" ">>
           ELSE <<"An unnamed charitable organization", " ">>))
    \o (IF Present(uen)
        THEN <<"with the UEN identifier", " ">> \o PyStr(uen) \o <<".", " ">>
        ELSE <<".", " ">>)

\* Opening that ends an unnamed sentence without identifier like a named one
Opening_UnnamedPlainEnd(name, charity_status, uen) ==
    IF Present(name)
    THEN (IF Present(charity_status)
          THEN PyStr(name) \o <<" ", "is a", " ">> \o PyStr(charity_status) \o <<" ">>
          ELSE PyStr(name) \o <<" ", "is a charitable organization", " ">>)
         \o (IF Present(uen)
             THEN <<"with the UEN identifier", " ">> \o PyStr(uen) \o <<".", " ">>
             ELSE <<".", " ">>)
    ELSE (IF Present(charity_status)
          THEN <<"An unnamed", " ">> \o PyStr(charity_status) \o <<" ">>
          ELSE <<"An unnamed charitable organization", " ">>)
         \o (IF Present(uen)
             THEN <<"with UEN", " ">> \o PyStr(uen) \o <<".", " ">>
             ELSE <<".", " ">>)

\* the opening sentence of a paragraph
Opening(name, charity_status, uen) ==
    IF Present(name)
    THEN (IF Present(charity_status)
          THEN PyStr(name) \o <<" ", "is a", " ">> \o PyStr(charity_status) \o <<" ">>
          ELSE PyStr(name) \o <<" ", "is a charitable organization", " ">>)
         \o (IF Present(uen)
             THEN <<"with the UEN identifier", " ">> \o PyStr(uen) \o <<".", " ">>
             ELSE <<".", " ">>)
    ELSE (IF Present(charity_status)
          THEN <<"An unnamed", " ">> \o PyStr(charity_status) \o <<" ">>
          ELSE <<"An unnamed charitable organization", " ">>)
         \o (IF Present(uen)
             THEN <<"with UEN", " ">> \o PyStr(uen) \o <<".", " ">>
             ELSE <<"with no UEN specified.", " ">>)

\* Details with the sector clause put before the IPC clause
Details_SectorFirst(ipc_period, sector, classification) ==
    (IF Present(sector)
     THEN << <<"It operates within the", " ">> \o PyStr(sector) \o <<" ", "sector">> >>
     ELSE <<>>)
    \o (IF Present(ipc_period)
        THEN << <<"It has been granted an IPC (Institution of Public Character) status for the period",
                  " ">> \o PyStr(ipc_period) >>
        ELSE <<>>)
    \o (IF Present(classification)
        THEN << <<"It is classified as", " ">> \o PyStr(classification) >>
        ELSE <<>>)

\* Details with the sector clause added whether or not the sector is present
Details_SectorAlways(ipc_period, sector, classification) ==
    (IF Present(ipc_period)
     THEN << <<"It has been granted an IPC (Institution of Public Character) status for the period",
               " ">> \o PyStr(ipc_period) >>
     ELSE <<>>)
    \o << <<"It operates within the", " ">> \o PyStr(sector) \o <<" ", "sector">> >>
    \o (IF Present(classification)
        THEN << <<"It is classified as", " ">> \o PyStr(classification) >>
        ELSE <<>>)

\* the list details
Details(ipc_period, sector, classification) ==
    (IF Present(ipc_period)
     THEN << <<"It has been granted an IPC (Institution of Public Character) status for the period",
               " ">> \o PyStr(ipc_period) >>
     ELSE <<>>)
    \o (IF Present(sector)
        THEN << <<"It operates within the", " ">> \o PyStr(sector) \o <<" ", "sector">> >>
        ELSE <<>>)
    \o (IF Present(classification)
        THEN << <<"It is classified as", " ">> \o PyStr(classification) >>
        ELSE <<>>)

\* the concluding statement
ActivitiesClause(activities) ==
    IF Present(activities)
    THEN LET clean_activities ==
                 CollapseSpaces(ReplaceChar(ReplaceChar(PyStr(activities), "\n"), "\r"))
         IN <<"The organization's activities include:", " ">> \o clean_activities \o <<".">>
    ELSE <<>>

\* TextConverter.charity_to_paragraph(row): the paragraph, or the TypeError of
\* a truth test on a value that has none
charity_to_paragraph(row) ==
    LET f == ResolvedFields(row)
        details == Details(f[4], f[5], f[6])
    IN IF \E i \in 1..Len(f) : TruthRaises(f[i])
       THEN Raise(<<"TypeError">>)
       ELSE Return(Strip(Opening(f[1], f[2], f[3])
                         \o (IF details # <<>>
                             THEN Join(details, <<" ">>) \o <<".", " ">>
                             ELSE <<>>)
                         \o ActivitiesClause(f[7])))

\* f"Error processing charity record {idx}."
Placeholder(idx) ==
    <<"Error processing charity record", " ">> \o ToDecimal(idx) \o <<".">>

\* the entry one row of the loop appends to paragraphs
RowEntry(idx, row) ==
    LET r == charity_to_paragraph(row)
    IN IF r.raised THEN Placeholder(idx) ELSE r.value

\* charities_df_to_paragraphs with each entry put in front of the list
charities_df_to_paragraphs_Prepend(d) ==
    IF DfEmpty(d) THEN <<>>
    ELSE [k \in 1..Len(d.data) |->
             RowEntry(d.index[Len(d.data) + 1 - k], d.data[Len(d.data) + 1 - k])]

\* TextConverter.charities_df_to_paragraphs(df)
charities_df_to_paragraphs(d) ==
    IF DfEmpty(d) THEN <<>>
    ELSE [k \in 1..Len(d.data) |-> RowEntry(d.index[k], d.data[k])]

\* [p for p in paragraphs if p]
RECURSIVE ValidParagraphs(_)
ValidParagraphs(paragraphs) ==
    IF paragraphs = <<>> THEN <<>>
    ELSE (IF Head(paragraphs) # <<>> THEN <<Head(paragraphs)>> ELSE <<>>)
         \o ValidParagraphs(Tail(paragraphs))

Separator == <<"\n", "\n">>

\* concatenate_paragraphs joining with a single line break
concatenate_paragraphs_SingleNewline(paragraphs) ==
    Join(ValidParagraphs(paragraphs), <<"\n">>)

\* TextConverter.concatenate_paragraphs(paragraphs), separator "\n\n"
concatenate_paragraphs(paragraphs) == Join(ValidParagraphs(paragraphs), Separator)

NoRecords == <<"No charity records found.">>

\* BatchSlice whose end is not cut at the number of rows
BatchSlice_NoMin(start_idx, total_rows, batch_size) ==
    <<start_idx, start_idx + batch_size>>

\* BatchSlice whose end is taken as inclusive
BatchSlice_InclusiveEnd(start_idx, total_rows, batch_size) ==
    <<start_idx, Min(start_idx + batch_size + 1, total_rows)>>

\* the slice [start_idx, end_idx) of one iteration of batch_process's loop
BatchSlice(start_idx, total_rows, batch_size) ==
    <<start_idx, Min(start_idx + batch_size, total_rows)>>

\* the slices batch_process's loop takes, in order (batch_size # 0)
BatchSlices(total_rows, batch_size) ==
    LET starts == PyRange(0, total_rows, batch_size)
    IN [i \in 1..Len(starts) |-> BatchSlice(starts[i], total_rows, batch_size)]

\* the results list after the loop has run over the given slices
RECURSIVE BatchResults(_, _)
BatchResults(d, slices) ==
    IF slices = <<>> THEN <<>>
    ELSE LET batch_df == ILoc(d, Head(slices)[1], Head(slices)[2])
             batch_paragraphs == charities_df_to_paragraphs(batch_df)
         IN (IF batch_paragraphs # <<>>
             THEN <<concatenate_paragraphs(batch_paragraphs)>>
             ELSE <<>>)
            \o BatchResults(d, Tail(slices))

\* batch_process without the early return for an empty frame
batch_process_NoSentinel(d, batch_size) ==
    IF batch_size = 0 THEN Raise(<<"ValueError">>)
    ELSE Return(BatchResults(d, BatchSlices(DfLen(d), batch_size)))

\* TextConverter.batch_process(df, batch_size): the list of batch texts, or the
\* ValueError of range() with a zero step
batch_process(d, batch_size) ==
    IF DfLen(d) = 0 THEN Return(<<NoRecords>>)
    ELSE IF batch_size = 0 THEN Raise(<<"ValueError">>)
    ELSE Return(BatchResults(d, BatchSlices(DfLen(d), batch_size)))

\* check_column_exists(name)
check_column_exists(d, name) == name \in d.columns \/ LowerName(name) \in d.columns

\* get_column_values looking up the lowercase name first
get_column_values_LowerFirst(d, name) ==
    IF LowerName(name) \in d.columns THEN Column(d, LowerName(name))
    ELSE IF name \in d.columns THEN Column(d, name)
    ELSE <<>>

\* get_column_values(name)
get_column_values(d, name) ==
    IF name \in d.columns THEN Column(d, name)
    ELSE IF LowerName(name) \in d.columns THEN Column(d, LowerName(name))
    ELSE <<>>

\* [str(s) for s in values if s and str(s).lower() != 'null']
RECURSIVE StrList(_)
StrList(values) ==
    IF values = <<>> THEN <<>>
    ELSE (IF Truthy(Head(values)) /\ Lower(PyStr(Head(values))) # NullText
          THEN <<PyStr(Head(values))>>
          ELSE <<>>)
         \o StrList(Tail(values))

\* s[:5]
FirstFive(s) == SubSeq(s, 1, Min(5, Len(s)))

\* SectorClause with "and others" from five values on
SectorClause_OthersFromFive(d) ==
    IF check_column_exists(d, "Sector")
    THEN LET sectors == Unique(DropNa(get_column_values(d, "Sector")))
             sector_list == StrList(sectors)
         IN IF sector_list # <<>>
            THEN <<"These organizations span", " ">> \o ToDecimal(Len(sector_list))
                 \o <<" ", "sectors including:", " ">>
                 \o Join(FirstFive(sector_list), <<",", " ">>)
                 \o (IF Len(sector_list) >= 5
                     THEN <<",", " ", "and others.", " ">>
                     ELSE <<".", " ">>)
            ELSE <<>>
    ELSE <<>>

\* the sector clause of the header
SectorClause(d) ==
    IF check_column_exists(d, "Sector")
    THEN LET sectors == Unique(DropNa(get_column_values(d, "Sector")))
             sector_list == StrList(sectors)
         IN IF sector_list # <<>>
            THEN <<"These organizations span", " ">> \o ToDecimal(Len(sector_list))
                 \o <<" ", "sectors including:", " ">>
                 \o Join(FirstFive(sector_list), <<",", " ">>)
                 \o (IF Len(sector_list) > 5
                     THEN <<",", " ", "and others.", " ">>
                     ELSE <<".", " ">>)
            ELSE <<>>
    ELSE <<>>

\* the type clause of the header
TypeClause(d) ==
    IF check_column_exists(d, "Type")
    THEN LET types == Unique(DropNa(get_column_values(d, "Type")))
             type_list == StrList(types)
         IN IF type_list # <<>>
            THEN <<"The database includes various charity statuses such as:", " ">>
                 \o Join(FirstFive(type_list), <<",", " ">>)
                 \o (IF Len(type_list) > 5
                     THEN <<",", " ", "and others.", " ">>
                     ELSE <<".", " ">>)
            ELSE <<>>
    ELSE <<>>

\* the sample names clause of the header
NamesClause(d) ==
    IF check_column_exists(d, "Name of Organisation")
    THEN LET unique_names == Unique(DropNa(get_column_values(d, "Name of Organisation")))
             sample_names == StrList(FirstFive(unique_names))
         IN IF Len(unique_names) > 0 /\ sample_names # <<>>
            THEN <<"Examples include:", " ">> \o Join(sample_names, <<",", " ">>)
                 \o (IF Len(unique_names) > 5
                     THEN <<",", " ", "and others.">>
                     ELSE <<".">>)
            ELSE <<>>
    ELSE <<>>

\* the first two lines of the header, for num_orgs records
HeaderStart(num_orgs) ==
    <<"CHARITY DATABASE OVERVIEW", "\n", "\n",
      "This document contains information about", " ">>
    \o ToDecimal(num_orgs) \o <<" ", "charitable organizations.", " ">>

\* TextConverter.create_metadata_header(df)
create_metadata_header(d) ==
    HeaderStart(DfLen(d)) \o SectorClause(d) \o TypeClause(d) \o NamesClause(d)

NoContent == <<"No content could be generated from the provided data.">>

\* format_for_rag with the header computed over the first batch only
format_for_rag_PerBatchHeader(d, include_metadata, batch_size) ==
    LET df_copy == FillNa(d)
        header == IF include_metadata
                  THEN create_metadata_header(
                           ILoc(df_copy, 0, IF batch_size > 0 THEN batch_size ELSE 0))
                  ELSE <<>>
        r == batch_process(df_copy, batch_size)
        batch_texts == r.value
    IN IF r.raised THEN r
       ELSE IF header # <<>> /\ batch_texts # <<>>
            THEN Return(header \o Separator \o Join(batch_texts, Separator))
       ELSE IF header # <<>> THEN Return(header)
       ELSE IF batch_texts # <<>> THEN Return(Join(batch_texts, Separator))
       ELSE Return(NoContent)

\* format_for_rag computing the header whether requested or not
format_for_rag_AlwaysHeader(d, include_metadata, batch_size) ==
    LET df_copy == FillNa(d)
        header == create_metadata_header(df_copy)
        r == batch_process(df_copy, batch_size)
        batch_texts == r.value
    IN IF r.raised THEN r
       ELSE IF batch_texts # <<>>
            THEN Return(header \o Separator \o Join(batch_texts, Separator))
       ELSE Return(header)

\* TextConverter.format_for_rag(df, include_metadata, batch_size)
format_for_rag(d, include_metadata, batch_size) ==
    LET df_copy == FillNa(d)
        header == IF include_metadata
                  THEN create_metadata_header(df_copy)
                  ELSE <<>>
        r == batch_process(df_copy, batch_size)
        batch_texts == r.value
    IN IF r.raised THEN r
       ELSE IF header # <<>> /\ batch_texts # <<>>
            THEN Return(header \o Separator \o Join(batch_texts, Separator))
       ELSE IF header # <<>> THEN Return(header)
       ELSE IF batch_texts # <<>> THEN Return(Join(batch_texts, Separator))
       ELSE Return(NoContent)

----------------------------------------------------------------------------
(* One call of the converter on one input DataFrame.  The converter keeps    *)
(* no state between calls (static methods, no module-level data), so a      *)
(* behaviour is one input and one call on it.                               *)

\* the cells the input frames hold in a column
CellValues(c) ==
    IF c = "Name of Organisation"
    THEN {Str(<<>>), Str(<<"a">>), Str(<<"b">>), NA}
    ELSE {Str(<<"h">>), NaN}

ColumnSets == {{}, {"Name of Organisation"}, {"Name of Organisation", "sector"}}

RowsOver(cs) ==
    {r \in [cs -> {Str(<<>>), Str(<<"a">>), Str(<<"b">>), Str(<<"h">>), NA, NaN}] :
        \A c \in cs : r[c] \in CellValues(c)}

\* pandas.RangeIndex(n): the labels of a frame built from a list of records
RangeIndex(n) == [k \in 1..n |-> k - 1]

InputFrames ==
    UNION {UNION {{[columns |-> cs, index |-> RangeIndex(n), data |-> rows] :
                      rows \in [1..n -> RowsOver(cs)]} :
                  n \in 0..MaxRows} :
           cs \in ColumnSets}

BatchSizes == (0 - 1)..MaxBatch

NoCall == [op |-> "none", include_metadata |-> FALSE, batch_size |-> 0]

\* the slices the loop of batch_process takes in a call that reaches it
SlicesTaken(d, batch_size) ==
    IF DfLen(d) = 0 \/ batch_size = 0 THEN <<>>
    ELSE BatchSlices(DfLen(d), batch_size)

\* a dict without keys
EmptyRow == [c \in {} |-> Str(<<>>)]

\* pandas.DataFrame()
EmptyFrame == [columns |-> {}, index |-> <<>>, data |-> <<>>]

Init ==
    /\ df \in InputFrames
    /\ input_row = EmptyRow
    /\ call = NoCall
    /\ ret = Return(<<>>)
    /\ batches = <<>>
    /\ RestIdle

CallCharitiesDfToParagraphs ==
    /\ call = NoCall
    /\ call' = [NoCall EXCEPT !.op = "charities_df_to_paragraphs"]
    /\ ret' = Return(charities_df_to_paragraphs(df))
    /\ batches' = <<>>
    /\ UNCHANGED <<df, input_row>>
    /\ UNCHANGED rest

CallBatchProcess(batch_size) ==
    /\ call = NoCall
    /\ call' = [NoCall EXCEPT !.op = "batch_process", !.batch_size = batch_size]
    /\ ret' = batch_process(df, batch_size)
    /\ batches' = SlicesTaken(df, batch_size)
    /\ UNCHANGED <<df, input_row>>
    /\ UNCHANGED rest

CallCreateMetadataHeader ==
    /\ call = NoCall
    /\ call' = [NoCall EXCEPT !.op = "create_metadata_header"]
    /\ ret' = Return(create_metadata_header(df))
    /\ batches' = <<>>
    /\ UNCHANGED <<df, input_row>>
    /\ UNCHANGED rest

\* the caller's frame after the fill, had df_copy been the frame itself
CallerFrame_Aliased(d) == FillNa(d)

\* the caller's frame after df_copy = df.copy() and the fill of df_copy: the
\* copy is deep, the fill assigns columns of the copy
CallerFrame(d) == d

CallFormatForRag(include_metadata, batch_size) ==
    /\ call = NoCall
    /\ call' = [op |-> "format_for_rag", include_metadata |-> include_metadata,
                batch_size |-> batch_size]
    /\ ret' = format_for_rag(df, include_metadata, batch_size)
    /\ batches' = SlicesTaken(df, batch_size)
    /\ df' = CallerFrame(df)
    /\ UNCHANGED input_row
    /\ UNCHANGED rest

Next ==
    \/ CallCharitiesDfToParagraphs
    \/ \E b \in BatchSizes : CallBatchProcess(b)
    \/ CallCreateMetadataHeader
    \/ \E m \in BOOLEAN, b \in BatchSizes : CallFormatForRag(m, b)

Spec == Init /\ [][Next]_vars

----------------------------------------------------------------------------
(* One call of charity_to_paragraph on one row dict *)

FieldNames ==
    {"Name of Organisation", "Type", "UEN", "IPC Period", "Sector",
     "Classification", "Activities"}

\* a value a field has in the rows where it is set plainly
Sample(name) ==
    CASE name = "Name of Organisation" -> Str(<<"a">>)
      [] name = "Type" -> Str(<<"t">>)
      [] name = "UEN" -> Str(<<"7">>)
      [] name = "IPC Period" -> Str(<<"p">>)
      [] name = "Sector" -> Str(<<"h">>)
      [] name = "Classification" -> Str(<<"c">>)
      [] OTHER -> Str(<<"x">>)

\* the key is not in the dict
Missing == [kind |-> "missing", s |-> <<>>]

\* activities texts with line breaks and runs of blanks
ActivityTexts ==
    {Str(<<"x", " ", " ", "y">>), Str(<<"x", " ", " ", " ", "y">>),
     Str(<<"x", "\n", "y">>), Str(<<"x", " ", "\r", "\n", " ", "y">>),
     Str(<<"x", " ", " ", " ", " ", " ", "y", "\n">>)}

\* what the exactly named key of the field under study holds
ExactCells(name) ==
    {Missing, Str(<<>>), Str(<<" ">>), Str(NullText), Str(<<"N", "u", "l", "l">>),
     PyNone, NaN, Sample(name)}
    \cup (IF name = "Activities" THEN ActivityTexts ELSE {})

\* what its lowercase key holds
LowerCells == {Missing, Str(<<>>), Str(<<"w">>)}

\* the dict with the field under study held as (exact, lower) and the fields
\* of others set plainly under their exact names
RowOf(name, exact, lower, others) ==
    [c \in others \cup (IF exact = Missing THEN {} ELSE {name})
                  \cup (IF lower = Missing THEN {} ELSE {LowerName(name)}) |->
        IF c = name THEN exact
        ELSE IF c = LowerName(name) THEN lower
        ELSE Sample(c)]

\* the row of the worked example: name, status, identifier and sector
HelpingHands ==
    [c \in {"Name of Organisation", "Type", "UEN", "Sector"} |->
        CASE c = "Name of Organisation" ->
                 Str(<<"H", "e", "l", "p", "i", "n", "g", " ", "H", "a", "n", "d", "s">>)
          [] c = "Type" ->
                 Str(<<"r", "e", "g", "i", "s", "t", "e", "r", "e", "d", " ",
                       "c", "h", "a", "r", "i", "t", "y">>)
          [] c = "UEN" -> Str(<<"T", "1", "2", "3", "4">>)
          [] OTHER -> Str(<<"H", "e", "a", "l", "t", "h">>)]

RenderRows ==
    UNION {{RowOf(name, exact, lower, others) :
               exact \in ExactCells(name), lower \in LowerCells,
               others \in SUBSET (FieldNames \ {name})} :
           name \in FieldNames}
    \cup {HelpingHands}

InitRender ==
    /\ df = EmptyFrame
    /\ input_row \in RenderRows
    /\ call = NoCall
    /\ ret = Return(<<>>)
    /\ batches = <<>>
    /\ RestIdle

CallCharityToParagraph ==
    /\ call = NoCall
    /\ call' = [NoCall EXCEPT !.op = "charity_to_paragraph"]
    /\ ret' = charity_to_paragraph(input_row)
    /\ UNCHANGED <<df, input_row, batches>>
    /\ UNCHANGED rest

NextRender == CallCharityToParagraph

SpecRender == InitRender /\ [][NextRender]_vars

----------------------------------------------------------------------------
(* One call of create_metadata_header on a frame of up to MaxHeaderRows     *)
(* rows with one sector or status column, holding up to MaxHeaderRows       *)
(* distinct values, repeated values, and empty, "null" and missing cells.   *)

\* a cell that is to be left out of the lists
Unlisted(k) ==
    CASE k % 4 = 0 -> Str(<<>>)
      [] k % 4 = 1 -> Str(NullText)
      [] k % 4 = 2 -> NaN
      [] OTHER -> Str(<<"N", "u", "l", "l">>)

\* the cell of row k: a value of its own ("new"), the value "a" once more
\* ("again"), or a cell to be left out
HeaderCell(k, n, choice, ascending) ==
    CASE choice = "new" -> Str(<<LowerCase[IF ascending THEN k ELSE n + 1 - k]>>)
      [] choice = "again" -> Str(<<"a">>)
      [] OTHER -> Unlisted(k)

HeaderColumns == {"Sector", "type", "Name of Organisation"}

HeaderChoices == {"new", "again", "none"}

\* the frame of n rows with the one column c
HeaderFrame(c, n, choices, asc) ==
    [columns |-> {c}, index |-> RangeIndex(n),
     data |-> [k \in 1..n |-> [x \in {c} |-> HeaderCell(k, n, choices[k], asc)]]]

\* the column sets of the frames where a column is there under both names, or
\* under neither
PairedColumns ==
    {{"Sector", "sector"}, {"Type", "type"},
     {"Name of Organisation", "name of organisation"}, {"UEN"}, {}}

PairedCells == {Str(<<"a">>), Str(<<"b">>), Str(<<>>), NaN}

\* frames of up to two rows over a paired column set
PairedFrames ==
    UNION {{[columns |-> cs, index |-> RangeIndex(n), data |-> rows] :
                rows \in [1..n -> [cs -> PairedCells]]} :
           cs \in PairedColumns, n \in 0..2}

InitHeader ==
    /\ \/ \E n \in 0..MaxHeaderRows, c \in HeaderColumns, asc \in BOOLEAN :
              \E choices \in [1..n -> HeaderChoices] :
                  df = HeaderFrame(c, n, choices, asc)
       \/ df \in PairedFrames
    /\ input_row = EmptyRow
    /\ call = NoCall
    /\ ret = Return(<<>>)
    /\ batches = <<>>
    /\ RestIdle

NextHeader == CallCreateMetadataHeader

SpecHeader == InitHeader /\ [][NextHeader]_vars

----------------------------------------------------------------------------
(* chunk_text (src/utils/helpers.py): one run, one loop iteration a step.   *)
(* A text is a sequence of characters; positions are Python's, from 0.      *)

\* s[a:b] for 0 <= a
PySlice(s, a, b) == SubSeq(s, a + 1, Min(b, Len(s)))

\* s.rfind(c): the last position of c in s, -1 when there is none
RFind(s, c) ==
    LET at == {i \in 1..Len(s) : s[i] = c}
    IN IF at = {} THEN 0 - 1 ELSE (CHOOSE i \in at : \A j \in at : j <= i) - 1

\* max(a, b, c, d)
Max4(a, b, c, d) ==
    LET m == {a, b, c, d} IN CHOOSE x \in m : \A y \in m : y <= x

SentenceEnds == {".", "!", "?", "\n"}

\* the end of the chunk, moved one character too far past the sentence end
ChunkEnd_PastBreak(text, start, chunk_size) ==
    LET end == start + chunk_size
        chunk == PySlice(text, start, end)
        last_period == Max4(RFind(chunk, "."), RFind(chunk, "!"),
                            RFind(chunk, "?"), RFind(chunk, "\n"))
    IN IF end < Len(text) /\ text[end + 1] \notin SentenceEnds /\ last_period > 0
       THEN start + last_period + 2
       ELSE end

\* the end of the chunk that starts at start: start + chunk_size, or just
\* after the last sentence end in the chunk
ChunkEnd(text, start, chunk_size) ==
    LET end == start + chunk_size
        chunk == PySlice(text, start, end)
        last_period == Max4(RFind(chunk, "."), RFind(chunk, "!"),
                            RFind(chunk, "?"), RFind(chunk, "\n"))
    IN IF end < Len(text) /\ text[end + 1] \notin SentenceEnds /\ last_period > 0
       THEN start + last_period + 1
       ELSE end

\* the next start without the test that it moves forward
NextStart_AlwaysOverlap(start, end, overlap) == end - overlap

\* start = end - overlap if end - overlap > start else end
NextStart(start, end, overlap) ==
    IF end - overlap > start THEN end - overlap ELSE end

Characters == {"x", "."}

Texts == UNION {[1..n -> Characters] : n \in 0..MaxText}

InitChunk ==
    /\ df = EmptyFrame
    /\ input_row = EmptyRow
    /\ call = NoCall
    /\ ret = Return(<<>>)
    /\ batches = <<>>
    /\ \E text \in Texts, chunk_size \in 1..MaxChunkSize, overlap \in (0 - 1)..MaxOverlap :
           chunker = [text |-> text, chunk_size |-> chunk_size, overlap |-> overlap,
                      start |-> 0, chunks |-> <<>>, spans |-> <<>>, pc |-> "call"]
    /\ rag = NoRag
    /\ session = NoSession

\* lines 112-116: the text that fits in one chunk is returned whole
ChunkEnter ==
    /\ chunker.pc = "call"
    /\ chunker' =
           IF Len(chunker.text) <= chunker.chunk_size
           THEN [chunker EXCEPT !.chunks = <<chunker.text>>,
                                !.spans = <<<<0, Len(chunker.text)>>>>,
                                !.pc = "done"]
           ELSE [chunker EXCEPT !.start = 0, !.pc = "loop"]
    /\ UNCHANGED <<converter, rag, session>>

\* lines 118-134: one iteration of the loop
ChunkIterate ==
    /\ chunker.pc = "loop"
    /\ chunker.start < Len(chunker.text)
    /\ LET end == ChunkEnd(chunker.text, chunker.start, chunker.chunk_size)
       IN chunker' =
              [chunker EXCEPT
                  !.chunks = Append(@, PySlice(chunker.text, chunker.start, end)),
                  !.spans = Append(@, <<chunker.start, Min(end, Len(chunker.text))>>),
                  !.start = NextStart(chunker.start, end, chunker.overlap)]
    /\ UNCHANGED <<converter, rag, session>>

\* line 136: the loop is left and the chunks are returned
ChunkReturn ==
    /\ chunker.pc = "loop"
    /\ ~(chunker.start < Len(chunker.text))
    /\ chunker' = [chunker EXCEPT !.pc = "done"]
    /\ UNCHANGED <<converter, rag, session>>

NextChunk == ChunkEnter \/ ChunkIterate \/ ChunkReturn

SpecChunk == InitChunk /\ [][NextChunk]_vars

\* the run is a sequential program: it takes its next step as long as it has one
SpecChunkFair == SpecChunk /\ WF_vars(NextChunk)

----------------------------------------------------------------------------
(* rag_query (src/streamlit_app_v2.py): one run, called by the dashboard or *)
(* by the chat page.  What the embedding API, the database and the model    *)
(* answer is chosen by the environment.  A search result is a record        *)
(* [from, rows]: the search it comes from, and None, an empty DataFrame or  *)
(* a DataFrame with rows.                                                   *)

Outcomes == {"None", "empty", "rows"}

\* results is None or results.empty
NoResults(results) == results.rows \in {"None", "empty"}

\* format_results_for_rag(results, query)
format_results_for_rag(results) ==
    IF NoResults(results)
    THEN <<"No relevant charity information found in the database for this query.">>
    ELSE <<"CHARITY DATABASE INFORMATION:", results.from>>

\* the dict of the success path
SuccessResponse(r) ==
    [k \in {"answer", "context", "results", "total_time", "debug_info"} |->
        CASE k = "answer" -> <<"response.text">>
          [] k = "context" -> r.formatted_context
          [] k = "results" -> <<r.results.from, r.results.rows>>
          [] OTHER -> <<>>]

\* the dict of the exception path
ErrorResponse(r) ==
    [k \in {"answer", "error"} |->
        CASE k = "answer" ->
                 <<"I encountered an error while processing your question. Please try again or rephrase your question.">>
          [] OTHER -> <<"RAG query error:">>]

\* the test of the fallback, on the similarity results alone
NeedsTextSearch_OnlyWhenNone(results) == results.rows = "None"

\* line 335: results is None or results.empty
NeedsTextSearch(results) == NoResults(results)

Queries == {"q", " "}

InitRag ==
    /\ df = EmptyFrame
    /\ input_row = EmptyRow
    /\ call = NoCall
    /\ ret = Return(<<>>)
    /\ batches = <<>>
    /\ chunker = NoChunker
    /\ session = NoSession
    /\ \E caller \in {"dashboard", "chat"}, q \in Queries, v \in BOOLEAN,
          m \in {"None", "model"} :
           /\ caller = "dashboard" => v
           /\ rag = [NoRag EXCEPT !.caller = caller, !.user_query = q,
                                  !.use_vector_search = v, !.gemini_model = m,
                                  !.pc = "call"]

\* lines 315-321: results = None, and the test of use_vector_search
RagEnter ==
    /\ rag.pc = "call"
    /\ rag' = [rag EXCEPT !.results = Unset,
                          !.pc = IF rag.use_vector_search THEN "embed" ELSE "fallback"]
    /\ UNCHANGED <<converter, chunker, session>>

\* lines 323-326: initialize_gemini_api (which sets the model when it
\* succeeds) and generate_embedding, which gives None for a blank query or
\* when the API fails, and the vector (a list, possibly empty) otherwise
RagEmbed(initialized, embedding) ==
    /\ rag.pc = "embed"
    /\ (~initialized \/ rag.user_query = " ") => embedding = "None"
    /\ rag' = [rag EXCEPT
                  !.gemini_model = IF initialized THEN "model" ELSE @,
                  !.query_embedding = embedding,
                  !.pc = IF embedding = "vector" THEN "similarity" ELSE "fallback"]
    /\ UNCHANGED <<converter, chunker, session>>

\* lines 328-332: search_charities_by_similarity
RagSimilaritySearch(rows) ==
    /\ rag.pc = "similarity"
    /\ LET found == [from |-> "similarity", rows |-> rows]
       IN rag' = [rag EXCEPT !.results = found,
                             !.searches = Append(@, found),
                             !.pc = "fallback"]
    /\ UNCHANGED <<converter, chunker, session>>

\* lines 335-336: search_charities_by_text, when there are no results
RagTextSearch(rows) ==
    /\ rag.pc = "fallback"
    /\ NeedsTextSearch(rag.results)
    /\ LET found == [from |-> "text", rows |-> rows]
       IN rag' = [rag EXCEPT !.results = found,
                             !.searches = Append(@, found),
                             !.pc = "format"]
    /\ UNCHANGED <<converter, chunker, session>>

\* line 335: the results of the similarity search are kept
RagKeepResults ==
    /\ rag.pc = "fallback"
    /\ ~NeedsTextSearch(rag.results)
    /\ rag' = [rag EXCEPT !.pc = "format"]
    /\ UNCHANGED <<converter, chunker, session>>

\* lines 339-342: the context and the prompt
RagFormat ==
    /\ rag.pc = "format"
    /\ rag' = [rag EXCEPT !.formatted_context = format_results_for_rag(rag.results),
                          !.pc = "generate"]
    /\ UNCHANGED <<converter, chunker, session>>

\* lines 345-366: generate_content, which fails on a model that is None and
\* may fail otherwise; the dict returned on either path
RagGenerate(generated) ==
    /\ rag.pc = "generate"
    /\ rag.gemini_model = "None" => ~generated
    /\ rag' = [rag EXCEPT !.response = IF generated THEN SuccessResponse(rag)
                                       ELSE ErrorResponse(rag),
                          !.pc = "returned"]
    /\ UNCHANGED <<converter, chunker, session>>

\* show_main_dashboard, lines 439-444: response["answer"], response["context"]
DashboardDisplay ==
    /\ rag.pc = "returned"
    /\ rag.caller = "dashboard"
    /\ rag' = [rag EXCEPT !.display = IF {"answer", "context"} \subseteq DOMAIN rag.response
                                      THEN "shown" ELSE "KeyError",
                          !.pc = "displayed"]
    /\ UNCHANGED <<converter, chunker, session>>

NextRag ==
    \/ RagEnter
    \/ \E i \in BOOLEAN, e \in {"None", "empty", "vector"} : RagEmbed(i, e)
    \/ \E rows \in Outcomes : RagSimilaritySearch(rows)
    \/ \E rows \in Outcomes : RagTextSearch(rows)
    \/ RagKeepResults
    \/ RagFormat
    \/ \E g \in BOOLEAN : RagGenerate(g)
    \/ DashboardDisplay

SpecRag == InitRag /\ [][NextRag]_vars

----------------------------------------------------------------------------
(* show_rag_chat (src/streamlit_app_v2.py): the chat history over the       *)
(* submissions of the chat form.  One submission is one run of the script.  *)

\* the dicts rag_query can return
RagResponses ==
    {SuccessResponse([NoRag EXCEPT
                         !.results = [from |-> "text", rows |-> rows],
                         !.formatted_context =
                             format_results_for_rag([from |-> "text", rows |-> rows])]) :
        rows \in Outcomes}
    \cup {ErrorResponse(NoRag)}

\* d.get(key, default)
DictGet(d, key, default) == IF key \in DOMAIN d THEN d[key] ELSE default

\* context.replace("\n", "<br>")
ReplaceLineBreaks(s) == [i \in 1..Len(s) |-> IF s[i] = "\n" THEN "<br>" ELSE s[i]]

\* the history after a Send that leaves a failed query without a reply
MessagesAfterSend_NoReplyOnError(messages, user_message, rag_response) ==
    IF "error" \in DOMAIN rag_response
    THEN Append(messages, [role |-> "user", content |-> user_message])
    ELSE messages
         \o <<[role |-> "user", content |-> user_message],
              [role |-> "assistant",
               content |-> DictGet(rag_response, "answer",
                                   <<"I couldn't process your question.">>),
               context |-> ReplaceLineBreaks(DictGet(rag_response, "context", <<>>))]>>

\* lines 615-635: the history after a Send of a non-empty message
MessagesAfterSend(messages, user_message, rag_response) ==
    messages
    \o <<[role |-> "user", content |-> user_message],
         [role |-> "assistant",
          content |-> DictGet(rag_response, "answer", <<"I couldn't process your question.">>),
          context |-> ReplaceLineBreaks(DictGet(rag_response, "context", <<>>))]>>

InitChat ==
    /\ df = EmptyFrame
    /\ input_row = EmptyRow
    /\ call = NoCall
    /\ ret = Return(<<>>)
    /\ batches = <<>>
    /\ chunker = NoChunker
    /\ rag = NoRag
    /\ session = [messages |-> <<>>, event |-> "open"]

\* Send with a message: lines 613-642
ChatSend(user_message, rag_response) ==
    /\ session.event # "none"
    /\ user_message # ""
    /\ Len(session.messages) < 2 * MaxTurns
    /\ session' = [messages |-> MessagesAfterSend(session.messages, user_message,
                                                  rag_response),
                   event |-> "send"]
    /\ UNCHANGED <<converter, chunker, rag>>

\* Send with the message box empty: the test of line 613 fails
ChatSendEmpty ==
    /\ session.event # "none"
    /\ session' = [session EXCEPT !.event = "send_empty"]
    /\ UNCHANGED <<converter, chunker, rag>>

\* Clear Chat: lines 608-610
ChatClear ==
    /\ session.event # "none"
    /\ session' = [messages |-> <<>>, event |-> "clear"]
    /\ UNCHANGED <<converter, chunker, rag>>

NextChat ==
    \/ \E m \in {"q", " "}, r \in RagResponses : ChatSend(m, r)
    \/ ChatSendEmpty
    \/ ChatClear

SpecChat == InitChat /\ [][NextChat]_vars

----------------------------------------------------------------------------
(* Properties *)

\* text.split("\n\n"), an empty text holding no paragraph
RECURSIVE SplitParagraphs(_)
SplitParagraphs(t) ==
    LET cuts == {i \in 1..(Len(t) - 1) : t[i] = "\n" /\ t[i + 1] = "\n"}
        cut == CHOOSE i \in cuts : \A j \in cuts : i <= j
    IN IF t = <<>> THEN <<>>
       ELSE IF cuts = {} THEN <<t>>
       ELSE <<SubSeq(t, 1, cut - 1)>> \o SplitParagraphs(SubSeq(t, cut + 2, Len(t)))

\* the paragraphs of a list of batch texts, in order
ParagraphsOf(batch_texts) == SplitParagraphs(Join(batch_texts, Separator))

IsPrefix(s, t) == Len(s) <= Len(t) /\ SubSeq(t, 1, Len(s)) = s

\* rendering row k of frame d raises
Faulty(d, k) == charity_to_paragraph(d.data[k]).raised

\* what row k of frame d is to contribute: its paragraph, or the placeholder
\* naming its position (counted from 0)
EntryOfRow(d, k) ==
    IF Faulty(d, k) THEN Placeholder(k - 1) ELSE charity_to_paragraph(d.data[k]).value

Called(op) == call.op = op

PositiveBatch == call.batch_size > 0

\* the paragraphs (and placeholders) of the value returned: what follows the
\* header, and none in the "no content" sentinel
OutputParagraphs ==
    CASE Called("charities_df_to_paragraphs") -> ret.value
      [] Called("batch_process") -> ParagraphsOf(ret.value)
      [] Called("format_for_rag") /\ ~call.include_metadata ->
             IF ret.value = NoContent THEN <<>> ELSE SplitParagraphs(ret.value)
      [] Called("format_for_rag") /\ call.include_metadata ->
             LET pieces == SplitParagraphs(ret.value)
             IN SubSeq(pieces, 3, Len(pieces))
      [] OTHER -> <<>>

\* the frame whose rows the call renders
RenderedFrame == IF Called("format_for_rag") THEN FillNa(df) ELSE df

\* C1: charities_df_to_paragraphs returns as many entries as the frame has
\* rows, whenever the frame has rows.
C1_RowCountPreserved ==
    (Called("charities_df_to_paragraphs") /\ DfLen(df) > 0)
        => Len(ret.value) = DfLen(df)

\* C2: for a positive batch_size, the k-th paragraph of the output of
\* batch_process / format_for_rag is the entry of the k-th input row; when the
\* frame has columns, the output holds the entries of all rows, in row order.
C2_RowOrderPreserved ==
    ((Called("batch_process") \/ Called("format_for_rag"))
     /\ PositiveBatch /\ DfLen(df) > 0)
        => /\ ~ret.raised
           /\ Len(OutputParagraphs) <= DfLen(df)
           /\ \A k \in 1..Len(OutputParagraphs) :
                  OutputParagraphs[k] = EntryOfRow(RenderedFrame, k)
           /\ df.columns # {} => Len(OutputParagraphs) = DfLen(df)

C2_Witness ==
    /\ Called("batch_process")
    /\ call.batch_size = 2
    /\ DfLen(df) = 3
    /\ Len(batches) = 2
    /\ Len(OutputParagraphs) = 3
    /\ OutputParagraphs[1] # OutputParagraphs[2]
    /\ OutputParagraphs[2] # OutputParagraphs[3]
    /\ OutputParagraphs[1] # OutputParagraphs[3]

\* C3 as stated: on an empty input format_for_rag returns the sentinel itself,
\* with or without the header requested, and batch_process returns the list
\* holding the one sentinel.
C3_SentinelIsTheWholeResult ==
    (PositiveBatch /\ DfLen(df) = 0)
        => /\ Called("format_for_rag")
                => (~ret.raised /\ ret.value \in {NoRecords, NoContent})
           /\ Called("batch_process")
                => (~ret.raised /\ ret.value = <<NoRecords>>)

\* C3 as amended: on an empty input format_for_rag never returns an empty
\* string; it returns the sentinel "No charity records found." when no header
\* is requested, and the header (reporting 0 records), a blank line and that
\* sentinel when the header is requested; batch_process returns exactly one
\* output, the sentinel.
C3_EmptyInputSentinel ==
    (PositiveBatch /\ DfLen(df) = 0)
        => /\ Called("format_for_rag")
                => /\ ~ret.raised
                   /\ ret.value # <<>>
                   /\ ~call.include_metadata => ret.value = NoRecords
                   /\ call.include_metadata
                        => ret.value = HeaderStart(0) \o Separator \o NoRecords
           /\ Called("batch_process")
                => (~ret.raised /\ ret.value = <<NoRecords>>)

C3_Witness ==
    /\ Called("format_for_rag")
    /\ call.include_metadata
    /\ call.batch_size = 2
    /\ DfLen(df) = 0
    /\ df.columns # {}
    /\ Flat(ret.value) =
         "CHARITY DATABASE OVERVIEW\n\nThis document contains information about 0 charitable organizations. \n\nNo charity records found."

\* ceil(n / b) for b > 0
CeilDiv(n, b) == (n + b - 1) \div b

\* C4: for n > 0 rows and a positive batch_size b the loop takes exactly
\* ceil(n/b) slices, slice k (from 0) being [k*b, min((k+1)*b, n)); every row
\* lies in exactly one slice, every slice holds 1..b rows and only the last
\* may hold fewer than b.
C4_BatchPartition ==
    ((Called("batch_process") \/ Called("format_for_rag"))
     /\ PositiveBatch /\ DfLen(df) > 0)
        => LET n == DfLen(df)
               b == call.batch_size
               size(k) == batches[k][2] - batches[k][1]
           IN /\ Len(batches) = CeilDiv(n, b)
              /\ \A k \in 1..Len(batches) :
                     /\ batches[k] = <<(k - 1) * b, Min(k * b, n)>>
                     /\ size(k) \in 1..b
                     /\ k < Len(batches) => size(k) = b
              /\ \A r \in 0..(n - 1) :
                     Cardinality({k \in 1..Len(batches) :
                                     batches[k][1] <= r /\ r < batches[k][2]}) = 1

C4_Witness ==
    /\ Called("batch_process")
    /\ DfLen(df) = 3
    /\ call.batch_size = 2
    /\ batches = << <<0, 2>>, <<2, 3>> >>
    /\ Len(ret.value) = 2

\* C5: for a non-empty frame and a positive batch_size, the paragraphs of all
\* batch texts of batch_process, concatenated, are the paragraphs of the
\* single batch text obtained with batch_size = len(df), in the same order.
C5_BatchingLaw ==
    (Called("batch_process") /\ PositiveBatch /\ DfLen(df) > 0)
        => /\ ~ret.raised
           /\ Len(batch_process(df, DfLen(df)).value) <= 1
           /\ ParagraphsOf(ret.value) = ParagraphsOf(batch_process(df, DfLen(df)).value)

C5_Witness ==
    /\ Called("batch_process")
    /\ call.batch_size = 1
    /\ DfLen(df) = 3
    /\ Len(ret.value) = 3
    /\ Len(batch_process(df, 3).value) = 1
    /\ ret.value[1] # ret.value[2]

\* C6: a call of batch_process or format_for_rag with a batch_size <= 0 fails
\* visibly (raises).
C6_NonPositiveBatchSizeFails ==
    ((Called("batch_process") \/ Called("format_for_rag")) /\ call.batch_size <= 0)
        => ret.raised

\* C7: a row whose rendering raises does not make charities_df_to_paragraphs
\* (or batch_process over it) raise; the placeholder naming the row's position
\* stands in the row's slot, and every later row, of the same and of later
\* batches, still contributes its own entry.
C7_RowFaultRecovered ==
    ((Called("charities_df_to_paragraphs") \/ (Called("batch_process") /\ PositiveBatch))
     /\ DfLen(df) > 0)
        => /\ ~ret.raised
           /\ \A k \in 1..DfLen(df) :
                  Faulty(df, k)
                      => /\ Len(OutputParagraphs) = DfLen(df)
                         /\ OutputParagraphs[k] = Placeholder(k - 1)
                         /\ \A j \in (k + 1)..DfLen(df) :
                                ~Faulty(df, j)
                                    => OutputParagraphs[j]
                                         = charity_to_paragraph(df.data[j]).value

C7_Witness ==
    /\ Called("batch_process")
    /\ call.batch_size = 2
    /\ DfLen(df) = 3
    /\ ~Faulty(df, 1)
    /\ Faulty(df, 2)
    /\ Faulty(df, 3)
    /\ Flat(OutputParagraphs[2]) = "Error processing charity record 1."
    /\ Flat(OutputParagraphs[3]) = "Error processing charity record 2."

\* the header of a document that starts with one
HeaderOf(text) ==
    LET pieces == SplitParagraphs(text)
    IN Join(SubSeq(pieces, 1, Min(2, Len(pieces))), Separator)

\* C8: with the header requested and a positive batch_size, the header of the
\* document is the header of the whole (normalised) input, whatever the
\* batch_size, and reports the total number of rows.
C8_HeaderOverWholeInput ==
    (Called("format_for_rag") /\ call.include_metadata /\ PositiveBatch)
        => /\ ~ret.raised
           /\ IsPrefix(HeaderStart(DfLen(df)), ret.value)
           /\ HeaderOf(ret.value) = create_metadata_header(FillNa(df))
           /\ \A b \in 1..MaxBatch :
                  HeaderOf(format_for_rag(df, TRUE, b).value) = HeaderOf(ret.value)

C8_Witness ==
    /\ Called("format_for_rag")
    /\ call.include_metadata
    /\ call.batch_size = 1
    /\ DfLen(df) = 3
    /\ Len(batches) = 3
    /\ Flat(HeaderOf(ret.value)) =
         "CHARITY DATABASE OVERVIEW\n\nThis document contains information about 3 charitable organizations. These organizations span 1 sectors including: h. Examples include: a, b."

\* the dict without the keys of a field, exact and lowercase
WithoutField(r, name) ==
    [c \in (DOMAIN r) \ {name, LowerName(name)} |-> r[c]]

\* a str that is empty, whitespace-only or the literal "null"
AbsentLike(v) ==
    /\ v.kind = "str"
    /\ (v.s = <<>> \/ Strip(v.s) = <<>> \/ v.s = NullText)

\* the template fragments that lead in the value of a field
ClauseMarkers(name) ==
    CASE name = "Name of Organisation" -> {"is a", "is a charitable organization"}
      [] name = "Type" -> {"is a", "An unnamed"}
      [] name = "UEN" -> {"with the UEN identifier", "with UEN"}
      [] name = "IPC Period" ->
             {"It has been granted an IPC (Institution of Public Character) status for the period"}
      [] name = "Sector" -> {"It operates within the"}
      [] name = "Classification" -> {"It is classified as"}
      [] OTHER -> {"The organization's activities include:"}

Atoms(t) == {t[i] : i \in 1..Len(t)}

\* C10: when the value charity_to_paragraph reads for a field is empty,
\* whitespace-only or "null", the call does not raise, the clause carrying
\* the field's value is not in the paragraph, and the paragraph is the one of
\* the same row without the field's keys.
C10_AbsentLikeFieldOmitted ==
    Called("charity_to_paragraph")
        => \A name \in FieldNames :
               AbsentLike(Resolve(input_row, name))
                   => /\ ~ret.raised
                      /\ Atoms(ret.value) \cap ClauseMarkers(name) = {}
                      /\ ret = charity_to_paragraph(WithoutField(input_row, name))

C10_Witness ==
    /\ Called("charity_to_paragraph")
    /\ "Sector" \in DOMAIN input_row
    /\ input_row["Sector"] = Str(<<" ">>)
    /\ "sector" \in DOMAIN input_row
    /\ input_row["sector"] = Str(<<"w">>)
    /\ Flat(ret.value) =
         "a is a t with the UEN identifier 7. It is classified as c. The organization's activities include: x."

\* fields of a row dict, by key
KeyPresent(r, key) == key \in DOMAIN r /\ ~TruthRaises(r[key]) /\ Present(r[key])

\* the first of the exact and the lowercase key that holds a value that is
\* not absent; the empty str when neither does
BestAvailable(r, name) ==
    IF KeyPresent(r, name) THEN r[name]
    ELSE IF KeyPresent(r, LowerName(name)) THEN r[LowerName(name)]
    ELSE Str(<<>>)

\* the dict with a field held under its exact key only
WithField(r, name, v) ==
    [c \in ((DOMAIN r) \ {LowerName(name)}) \cup {name} |->
        IF c = name THEN v ELSE r[c]]

\* C11: for every field the paragraph is rendered from the first of the exact
\* and the lowercase column that holds a non-absent value (the empty string
\* when neither does): an exact column that is present but empty or "null"
\* gives way to a lowercase column holding a value.
C11_FirstNonAbsentColumnWins ==
    Called("charity_to_paragraph")
        => \A name \in FieldNames :
               /\ ~ret.raised
               /\ ret = charity_to_paragraph(
                            WithField(input_row, name, BestAvailable(input_row, name)))

\* the fields other than the name do not resolve to a value
OnlyNameSet(r) ==
    /\ KeyPresent(r, "Name of Organisation") \/ KeyPresent(r, "name of organisation")
    /\ Present(Resolve(r, "Name of Organisation"))
    /\ \A name \in FieldNames \ {"Name of Organisation"} :
           /\ ~TruthRaises(Resolve(r, name))
           /\ ~Present(Resolve(r, name))

\* C12: a row in which only the name is set renders to exactly the opening
\* sentence with the default status, "<name> is a charitable organization .",
\* and holds no IPC, sector, classification or activities clause.
C12_OnlyNameOpeningSentence ==
    (Called("charity_to_paragraph") /\ OnlyNameSet(input_row))
        => /\ ~ret.raised
           /\ ret.value = PyStr(Resolve(input_row, "Name of Organisation"))
                            \o <<" ", "is a charitable organization", " ", ".">>
           /\ Atoms(ret.value)
                \cap UNION {ClauseMarkers(name) :
                               name \in {"IPC Period", "Sector", "Classification",
                                         "Activities"}} = {}

C12_Witness ==
    /\ Called("charity_to_paragraph")
    /\ DOMAIN input_row = {"Name of Organisation"}
    /\ Flat(ret.value) = "a is a charitable organization ."

\* every field is absent: missing, None, empty, whitespace-only or "null"
AllFieldsAbsent(r) ==
    \A name \in FieldNames :
        /\ ~TruthRaises(Resolve(r, name))
        /\ ~Present(Resolve(r, name))

\* C13: a row with all fields absent renders to exactly the unnamed opening
\* sentence, with the identifier label "UEN", and nothing after it.
C13_AllAbsentUnnamedSentence ==
    (Called("charity_to_paragraph") /\ AllFieldsAbsent(input_row))
        => /\ ~ret.raised
           /\ Flat(ret.value) = "An unnamed charitable organization with no UEN specified."

C13_Witness ==
    /\ Called("charity_to_paragraph")
    /\ DOMAIN input_row = {}
    /\ Flat(ret.value) = "An unnamed charitable organization with no UEN specified."

IsSuffix(s, t) == Len(s) <= Len(t) /\ SubSeq(t, Len(t) - Len(s) + 1, Len(t)) = s

\* the first position of an atom in a text, 0 when it is not in it
PositionOf(t, atom) ==
    IF atom \in Atoms(t)
    THEN CHOOSE i \in 1..Len(t) : t[i] = atom /\ \A j \in 1..(i - 1) : t[j] # atom
    ELSE 0

\* the sentence of descriptive clauses a row is to get: the IPC clause, the
\* sector clause, the classification clause, those whose field resolves,
\* joined by blanks and ended by ". "
DetailSentence(r) ==
    LET ipc == Resolve(r, "IPC Period")
        sec == Resolve(r, "Sector")
        cls == Resolve(r, "Classification")
        c1 == IF Present(ipc)
              THEN << <<"It has been granted an IPC (Institution of Public Character) status for the period",
                        " ">> \o PyStr(ipc) >>
              ELSE <<>>
        c2 == IF Present(sec)
              THEN << <<"It operates within the", " ">> \o PyStr(sec) \o <<" ", "sector">> >>
              ELSE <<>>
        c3 == IF Present(cls)
              THEN << <<"It is classified as", " ">> \o PyStr(cls) >>
              ELSE <<>>
    IN IF c1 \o c2 \o c3 = <<>> THEN <<>>
       ELSE Join(c1 \o c2 \o c3, <<" ">>) \o <<".", " ">>

\* the clauses of the paragraph returned stand in the fixed order: what
\* precedes the activities clause ends with the sentence of descriptive
\* clauses, which follows the opening sentence, and the activities clause,
\* present exactly when the activities resolve, is last
ClauseOrderFixed ==
    LET marker == "The organization's activities include:"
        at == PositionOf(ret.value, marker)
        before == IF at > 0 THEN SubSeq(ret.value, 1, at - 1) ELSE ret.value \o <<" ">>
        opening == SubSeq(before, 1, Len(before) - Len(DetailSentence(input_row)))
    IN /\ ~ret.raised
       /\ IsSuffix(DetailSentence(input_row), before)
       /\ IsSuffix(<<".", " ">>, opening) \/ IsSuffix(<<"with no UEN specified.", " ">>, opening)
       /\ Atoms(opening)
            \cap (ClauseMarkers("IPC Period") \cup ClauseMarkers("Sector")
                  \cup ClauseMarkers("Classification")) = {}
       /\ (at > 0) <=> Present(Resolve(input_row, "Activities"))
       /\ at > 0 => ret.value[Len(ret.value)] = "."

\* the start of the example paragraph as the claim gives it
HelpingHandsStart ==
    PyStr(HelpingHands["Name of Organisation"]) \o <<" ", "is a", " ">>
    \o PyStr(HelpingHands["Type"]) \o <<" ", "with the UEN identifier", " ">>
    \o PyStr(HelpingHands["UEN"]) \o <<".", " ", "It operates within the", " ">>
    \o PyStr(HelpingHands["Sector"]) \o <<" ", "sector", ".", " ">>

\* C14 as stated: the clause order is fixed, and the example row (name, status,
\* identifier, sector) renders to a paragraph that starts with its two
\* sentences, each followed by a blank.
C14_OrderAndExampleWithBlank ==
    Called("charity_to_paragraph")
        => /\ ClauseOrderFixed
           /\ input_row = HelpingHands => IsPrefix(HelpingHandsStart, ret.value)

\* C14 as amended: the clause order is fixed (opening sentence, IPC clause,
\* sector clause, classification clause, activities clause last), and the
\* example row renders to exactly the two sentences, the blank after the
\* last period being stripped as no activities clause follows.
C14_ClauseOrderFixed ==
    Called("charity_to_paragraph")
        => /\ ClauseOrderFixed
           /\ input_row = HelpingHands
                => Flat(ret.value) =
                     "Helping Hands is a registered charity with the UEN identifier T1234. It operates within the Health sector."

C14_Witness ==
    /\ Called("charity_to_paragraph")
    /\ DOMAIN input_row = FieldNames
    /\ \A name \in FieldNames : input_row[name] = Sample(name)
    /\ Flat(ret.value) =
         "a is a t with the UEN identifier 7. It has been granted an IPC (Institution of Public Character) status for the period p It operates within the h sector It is classified as c. The organization's activities include: x."

\* the start of the opening sentence: the name, or "An unnamed", and the
\* status, "charitable organization" when the status is absent
OpeningStart(r) ==
    LET name == Resolve(r, "Name of Organisation")
        status == Resolve(r, "Type")
    IN IF Present(name)
       THEN (IF Present(status)
             THEN PyStr(name) \o <<" ", "is a", " ">> \o PyStr(status) \o <<" ">>
             ELSE PyStr(name) \o <<" ", "is a charitable organization", " ">>)
       ELSE (IF Present(status)
             THEN <<"An unnamed", " ">> \o PyStr(status) \o <<" ">>
             ELSE <<"An unnamed charitable organization", " ">>)

\* the paragraph returned starts with the sentence (whose last blank is
\* stripped when the paragraph ends there)
StartsWithSentence(sentence) ==
    /\ ~ret.raised
    /\ IsPrefix(RStrip(sentence), ret.value)
    /\ Len(ret.value) > Len(RStrip(sentence))
         => ret.value[Len(RStrip(sentence)) + 1] = " "

\* C15 as stated: named or not, the opening sentence goes on with
\* "with the UEN identifier <id>. " when the identifier resolves and with
\* ". " when it does not.
C15_OneIdentifierWording ==
    Called("charity_to_paragraph")
        => LET uen == Resolve(input_row, "UEN")
           IN StartsWithSentence(
                  OpeningStart(input_row)
                  \o (IF Present(uen)
                      THEN <<"with the UEN identifier", " ">> \o PyStr(uen) \o <<".", " ">>
                      ELSE <<".", " ">>))

\* C15 as amended: after "<Name> is a <status> " the opening sentence goes on
\* with "with the UEN identifier <id>. " or ". "; after "An unnamed <status> "
\* it goes on with "with UEN <id>. " or "with no UEN specified. ".
C15_OpeningSentenceWording ==
    Called("charity_to_paragraph")
        => LET uen == Resolve(input_row, "UEN")
               named == Present(Resolve(input_row, "Name of Organisation"))
           IN StartsWithSentence(
                  OpeningStart(input_row)
                  \o (IF named
                      THEN (IF Present(uen)
                            THEN <<"with the UEN identifier", " ">> \o PyStr(uen)
                                 \o <<".", " ">>
                            ELSE <<".", " ">>)
                      ELSE (IF Present(uen)
                            THEN <<"with UEN", " ">> \o PyStr(uen) \o <<".", " ">>
                            ELSE <<"with no UEN specified.", " ">>)))

C15_Witness ==
    /\ Called("charity_to_paragraph")
    /\ DOMAIN input_row = {"Type", "UEN", "Sector"}
    /\ Flat(ret.value) = "An unnamed t with UEN 7. It operates within the h sector."

\* C16: for an input with rows and a positive batch_size, the document is the
\* header (when requested), a blank line, and the paragraphs of the whole
\* normalised input in row order, any two neighbours separated by one blank
\* line, batch boundary or not; the document is the same for every positive
\* batch_size.
C16_UniformSeparator ==
    (Called("format_for_rag") /\ PositiveBatch /\ DfLen(df) > 0)
        => LET paragraphs == charities_df_to_paragraphs(FillNa(df))
               header == IF call.include_metadata
                         THEN create_metadata_header(FillNa(df))
                         ELSE <<>>
           IN /\ ~ret.raised
              /\ df.columns # {}
                   => paragraphs = [k \in 1..DfLen(df) |-> EntryOfRow(FillNa(df), k)]
              /\ paragraphs # <<>>
                   => ret.value = (IF header # <<>> THEN header \o <<"\n", "\n">> ELSE <<>>)
                                  \o Join(paragraphs, <<"\n", "\n">>)
              /\ \A b \in 1..MaxBatch :
                     format_for_rag(df, call.include_metadata, b) = ret

C16_Witness ==
    /\ Called("format_for_rag")
    /\ call.batch_size = 2
    /\ call.include_metadata
    /\ DfLen(df) = 3
    /\ Len(batches) = 2
    /\ df.columns # {}
    /\ Len(SplitParagraphs(ret.value)) = 5

\* C17: format_for_rag returns header + blank line + the batch texts joined by
\* blank lines when both exist, the header alone when there are no batch
\* texts, the joined batch texts alone when no header was requested (and then
\* no header title occurs in the output), and the "no content" sentinel
\* exactly when there is neither header nor batch text.
C17_AssemblyByCase ==
    LET header == IF call.include_metadata
                  THEN create_metadata_header(FillNa(df))
                  ELSE <<>>
        texts == batch_process(FillNa(df), call.batch_size)
        joined == Join(texts.value, <<"\n", "\n">>)
    IN (Called("format_for_rag") /\ ~texts.raised)
           => /\ ~ret.raised
              /\ (header = <<>>) <=> ~call.include_metadata
              /\ (header # <<>> /\ texts.value # <<>>)
                   => ret.value = header \o <<"\n", "\n">> \o joined
              /\ (header # <<>> /\ texts.value = <<>>) => ret.value = header
              /\ (header = <<>> /\ texts.value # <<>>) => ret.value = joined
              /\ (ret.value = NoContent) <=> (header = <<>> /\ texts.value = <<>>)
              /\ ~call.include_metadata
                   => "CHARITY DATABASE OVERVIEW" \notin Atoms(ret.value)

C17_Witness ==
    /\ Called("format_for_rag")
    /\ call.include_metadata
    /\ call.batch_size = 0 - 1
    /\ DfLen(df) = 2
    /\ df.columns # {}
    /\ ret.value = create_metadata_header(FillNa(df))

\* the cells of frame d that hold a missing value
MissingCells(d) ==
    {<<k, c>> \in (1..Len(d.data)) \X d.columns :
        d.data[k][c].kind \in {"None", "NaN", "NA"}}

\* frame d with the empty string in the given cells
WithEmptyString(d, cells) ==
    [d EXCEPT !.data =
        [k \in 1..Len(d.data) |->
            [c \in d.columns |->
                IF <<k, c>> \in cells THEN [kind |-> "str", s |-> <<>>]
                ELSE d.data[k][c]]]]

\* the texts str() gives for the missing values
MissingMarkers ==
    {<<"n", "a", "n">>, <<"N", "a", "N">>, <<"N", "o", "n", "e">>, <<"<", "N", "A", ">">>}

ShowsMarker(t) ==
    \E m \in MissingMarkers :
        \E i \in 1..(Len(t) + 1 - Len(m)) : SubSeq(t, i, i + Len(m) - 1) = m

\* C18: format_for_rag returns the same for the input and for the input with
\* any one, or all, of its missing values replaced by the empty string, and the text it
\* returns shows no missing-value marker (nan, None, <NA>), nor a placeholder
\* of a row whose missing value could not be rendered.
C18_MissingValuesNormalised ==
    Called("format_for_rag")
        => /\ \A cells \in {MissingCells(df)} \cup {{c} : c \in MissingCells(df)} :
                  format_for_rag(WithEmptyString(df, cells), call.include_metadata,
                                 call.batch_size) = ret
           /\ ~ret.raised
                => /\ ~ShowsMarker(ret.value)
                   /\ "Error processing charity record" \notin Atoms(ret.value)

C18_Witness ==
    /\ Called("format_for_rag")
    /\ call.include_metadata
    /\ call.batch_size = 1
    /\ DfLen(df) = 2
    /\ df.columns = {"Name of Organisation", "sector"}
    /\ df.data[1]["sector"].kind = "NaN"
    /\ df.data[2]["Name of Organisation"].kind = "NA"
    /\ Len(SplitParagraphs(ret.value)) = 4

\* text s with each line break turned into a blank and, of every run of
\* blanks, only the first one kept (prev: the character before s)
RECURSIVE Squash(_, _)
Squash(s, prev) ==
    IF s = <<>> THEN <<>>
    ELSE LET ch == IF Head(s) \in {"\n", "\r"} THEN " " ELSE Head(s)
         IN (IF ch = " " /\ prev = " " THEN <<>> ELSE <<ch>>) \o Squash(Tail(s), ch)

\* the text after k rounds of the collapsing loop
RECURSIVE AfterRounds(_, _)
AfterRounds(s, k) ==
    IF k = 0 \/ ~HasDoubleSpace(s) THEN s ELSE AfterRounds(ReplaceDoubleSpace(s), k - 1)

\* every round of the loop on s shortens the text, so that the loop is over
\* after at most Len(s) rounds
LoopTerminates(s) ==
    /\ \A k \in 0..Len(s) :
           HasDoubleSpace(AfterRounds(s, k))
               => Len(AfterRounds(s, k + 1)) < Len(AfterRounds(s, k))
    /\ ~HasDoubleSpace(AfterRounds(s, Len(s)))

\* C19: when the activities field resolves, the paragraph ends with
\* "The organization's activities include: <text>." where <text> is the value
\* with line breaks replaced by blanks and runs of blanks collapsed to one
\* blank: no line break and no two blanks in a row are left, and the
\* collapsing loop comes to an end.
C19_ActivitiesClauseCleaned ==
    (Called("charity_to_paragraph") /\ Present(Resolve(input_row, "Activities")))
        => LET raw == PyStr(Resolve(input_row, "Activities"))
               text == Squash(raw, "")
           IN /\ ~ret.raised
              /\ IsSuffix(<<"The organization's activities include:", " ">>
                          \o text \o <<".">>, ret.value)
              /\ \A i \in 1..Len(text) : text[i] \notin {"\n", "\r"}
              /\ \A i \in 1..(Len(text) - 1) : ~(text[i] = " " /\ text[i + 1] = " ")
              /\ LoopTerminates(ReplaceChar(ReplaceChar(raw, "\n"), "\r"))

C19_Witness ==
    /\ Called("charity_to_paragraph")
    /\ DOMAIN input_row = {"Activities"}
    /\ input_row["Activities"].s = <<"x", " ", " ", " ", " ", " ", "y", "\n">>
    /\ Flat(ret.value) = "An unnamed charitable organization with no UEN specified. The organization's activities include: x y ."

\* the cells of the column of frame d that answers to name
CellsNamed(d, name) ==
    IF name \in d.columns THEN [k \in 1..Len(d.data) |-> d.data[k][name]]
    ELSE IF LowerName(name) \in d.columns
         THEN [k \in 1..Len(d.data) |-> d.data[k][LowerName(name)]]
         ELSE <<>>

\* a value to be listed: a text that is neither empty nor "null" in any case
Listable(v) == v.kind = "str" /\ v.s # <<>> /\ Lower(v.s) # <<"n", "u", "l", "l">>

\* the rows where a listable value occurs for the first time
FirstOccurrences(cells) ==
    {i \in 1..Len(cells) :
        Listable(cells[i]) /\ \A j \in 1..(i - 1) : cells[j] # cells[i]}

\* the distinct listable values, in order of first occurrence
DistinctListable(cells) ==
    LET rows == FirstOccurrences(cells)
        nth(k) == CHOOSE i \in rows : Cardinality({j \in rows : j <= i}) = k
    IN [k \in 1..Cardinality(rows) |-> cells[nth(k)].s]

\* up to five values, and the suffix when there are more
ListOfFive(values) ==
    Join(SubSeq(values, 1, IF Len(values) > 5 THEN 5 ELSE Len(values)), <<",", " ">>)
    \o (IF Len(values) > 5 THEN <<",", " ", "and others.", " ">> ELSE <<".", " ">>)

\* C20: the sector clause and the status clause of the header each list the
\* first 5 distinct values that are neither empty nor "null", in order of first
\* occurrence (all of them when they are 5 or fewer), followed by
\* ", and others" exactly when there are more than 5 such values.
C20_FirstFiveAndOthers ==
    Called("create_metadata_header")
        => LET sectors == DistinctListable(CellsNamed(df, "Sector"))
               types == DistinctListable(CellsNamed(df, "Type"))
           IN /\ ~ret.raised
              /\ ret.value
                   = HeaderStart(DfLen(df))
                     \o (IF sectors # <<>>
                         THEN <<"These organizations span", " ">>
                              \o ToDecimal(Len(sectors))
                              \o <<" ", "sectors including:", " ">>
                              \o ListOfFive(sectors)
                         ELSE <<>>)
                     \o (IF types # <<>>
                         THEN <<"The database includes various charity statuses such as:",
                                " ">> \o ListOfFive(types)
                         ELSE <<>>)
                     \o NamesClause(df)

C20_Witness ==
    /\ Called("create_metadata_header")
    /\ DfLen(df) = 7
    /\ Flat(ret.value) = "CHARITY DATABASE OVERVIEW\n\nThis document contains information about 7 charitable organizations. These organizations span 6 sectors including: g, e, d, c, b, and others. "

\* C21: the names clause of the header lists the first 5 distinct names that
\* are neither empty nor "null" (all of them when they are 5 or fewer),
\* followed by ", and others" exactly when there are more than 5 such names;
\* the clause is left out when there is no such name.
C21_NamesFirstFiveAndOthers ==
    Called("create_metadata_header")
        => LET names == DistinctListable(CellsNamed(df, "Name of Organisation"))
           IN /\ ~ret.raised
              /\ ret.value
                   = HeaderStart(DfLen(df)) \o SectorClause(df) \o TypeClause(df)
                     \o (IF names # <<>>
                         THEN <<"Examples include:", " ">>
                              \o Join(SubSeq(names, 1, IF Len(names) > 5 THEN 5 ELSE Len(names)),
                                      <<",", " ">>)
                              \o (IF Len(names) > 5
                                  THEN <<",", " ", "and others.">>
                                  ELSE <<".">>)
                         ELSE <<>>)

\* frame d without the columns cs
WithoutColumns(d, cs) ==
    [d EXCEPT !.columns = @ \ cs,
              !.data = [k \in 1..Len(d.data) |-> [c \in d.columns \ cs |-> d.data[k][c]]]]

HeaderClauseNames == {"Sector", "Type", "Name of Organisation"}

\* the template fragment that starts the header clause of a column
HeaderClauseStart(name) ==
    CASE name = "Sector" -> "These organizations span"
      [] name = "Type" -> "The database includes various charity statuses such as:"
      [] OTHER -> "Examples include:"

\* C22: the header always starts with the sentence giving the number of
\* records; the clause of a column is left out when the column is there under
\* neither its exact nor its lowercase name, or holds no value that is neither
\* empty nor "null"; and when a column is there under both names the exact one
\* is read: the header is the one of the frame without the lowercase column.
C22_OptionalClauses ==
    Called("create_metadata_header")
        => /\ ~ret.raised
           /\ IsPrefix(<<"CHARITY DATABASE OVERVIEW", "\n", "\n",
                         "This document contains information about", " ">>
                       \o ToDecimal(Len(df.data))
                       \o <<" ", "charitable organizations.", " ">>, ret.value)
           /\ \A name \in HeaderClauseNames :
                  /\ ({name, LowerName(name)} \cap df.columns = {}
                      \/ DistinctListable(CellsNamed(df, name)) = <<>>)
                       => HeaderClauseStart(name) \notin Atoms(ret.value)
                  /\ {name, LowerName(name)} \subseteq df.columns
                       => ret.value
                            = create_metadata_header(WithoutColumns(df, {LowerName(name)}))

C22_Witness ==
    /\ Called("create_metadata_header")
    /\ df.columns = {"Sector", "sector"}
    /\ DfLen(df) = 2
    /\ df.data[1]["Sector"] = NaN /\ df.data[1]["sector"] = Str(<<"b">>)
    /\ df.data[2]["Sector"] = Str(<<"a">>) /\ df.data[2]["sector"] = Str(<<"b">>)
    /\ Flat(ret.value) = "CHARITY DATABASE OVERVIEW\n\nThis document contains information about 2 charitable organizations. These organizations span 1 sectors including: a. "

\* C23: no row renders to the empty paragraph and, for a positive batch_size,
\* batch_process returns one text per batch taken, holding as many paragraphs
\* as the batch has rows.
C23_BatchTextHoldsItsRows ==
    /\ \A k \in 1..DfLen(df) :
           ~Faulty(df, k) => charity_to_paragraph(df.data[k]).value # <<>>
    /\ (Called("batch_process") /\ PositiveBatch /\ DfLen(df) > 0)
           => /\ ~ret.raised
              /\ Len(ret.value) = Len(batches)
              /\ \A i \in 1..Len(ret.value) :
                     Len(SplitParagraphs(ret.value[i])) = batches[i][2] - batches[i][1]

\* C24: for a positive batch_size batch_process returns a list that is not
\* empty and holds no empty text, and format_for_rag returns neither the header
\* alone nor the "no content" sentinel.
C24_NoFallbackBranch ==
    /\ (Called("batch_process") /\ PositiveBatch)
           => /\ ~ret.raised
              /\ ret.value # <<>>
              /\ \A i \in 1..Len(ret.value) : ret.value[i] # <<>>
    /\ (Called("format_for_rag") /\ PositiveBatch)
           => /\ ~ret.raised
              /\ ret.value # NoContent
              /\ ret.value # create_metadata_header(FillNa(df))

C26_ChunkTextTerminates ==
    /\ <>(chunker.pc = "done")
    /\ [][(chunker.pc = "loop" /\ chunker'.pc = "loop")
              => chunker'.start > chunker.start]_vars

C26_Witness ==
    /\ chunker.pc = "done"
    /\ Len(chunker.chunks) >= 3
    /\ chunker.overlap >= Len(chunker.chunks[1])
    /\ chunker.overlap >= Len(chunker.chunks[2])

\* C27: every chunk has at most chunk_size characters and is a stretch of
\* the text; the chunks come in increasing start position; and with an
\* overlap >= 0 the chunks returned leave out no character of the text.
C27_ChunksWithinSizeAndCovering ==
    LET text == chunker.text
        chunks == chunker.chunks
        spans == chunker.spans
    IN /\ Len(spans) = Len(chunks)
       /\ \A i \in 1..Len(chunks) :
              /\ Len(chunks[i]) <= chunker.chunk_size
              /\ \E a \in 0..Len(text) :
                     /\ a + Len(chunks[i]) <= Len(text)
                     /\ \A j \in 1..Len(chunks[i]) : chunks[i][j] = text[a + j]
              /\ spans[i][2] - spans[i][1] = Len(chunks[i])
              /\ \A j \in 1..Len(chunks[i]) : chunks[i][j] = text[spans[i][1] + j]
       /\ \A i \in 1..(Len(chunks) - 1) : spans[i][1] < spans[i + 1][1]
       /\ (chunker.pc = "done" /\ chunker.overlap >= 0)
              => \A p \in 1..Len(text) :
                     \E i \in 1..Len(chunks) : spans[i][1] < p /\ p <= spans[i][2]

C27_Witness ==
    /\ chunker.pc = "done"
    /\ chunker.text = <<"x", ".", "x", "x", "x">>
    /\ chunker.chunk_size = 3
    /\ chunker.overlap = 1
    /\ chunker.chunks = <<<<"x", ".">>, <<".", "x", "x">>, <<"x", "x">>>>

\* the searches of the run that were text searches
TextSearches == {i \in 1..Len(rag.searches) : rag.searches[i].from = "text"}

\* the run is past the test of the fallback
PastFallback == rag.pc \in {"format", "generate", "returned", "displayed"}

\* C28: rag_query runs the text search exactly when vector search is
\* disabled, or no query embedding was obtained, or the similarity search gave
\* None or an empty frame; the text search runs at most once in a run; and the
\* context is built from the results of the last search that ran.
C28_FallbackToTextSearch ==
    /\ Cardinality(TextSearches) <= 1
    /\ PastFallback
         => /\ (TextSearches # {})
                 <=> \/ ~rag.use_vector_search
                     \/ rag.query_embedding # "vector"
                     \/ \E i \in 1..Len(rag.searches) :
                            /\ rag.searches[i].from = "similarity"
                            /\ rag.searches[i].rows \in {"None", "empty"}
            /\ rag.searches # <<>>
    /\ rag.pc \in {"generate", "returned", "displayed"}
         => LET last == rag.searches[Len(rag.searches)]
            IN /\ rag.formatted_context
                    = IF last.rows = "rows"
                      THEN <<"CHARITY DATABASE INFORMATION:", last.from>>
                      ELSE <<"No relevant charity information found in the database for this query.">>
               /\ "context" \in DOMAIN rag.response
                    => rag.response["context"] = rag.formatted_context

C28_Witness ==
    /\ rag.pc = "returned"
    /\ rag.use_vector_search
    /\ rag.query_embedding = "vector"
    /\ Len(rag.searches) = 2
    /\ rag.searches[1] = [from |-> "similarity", rows |-> "empty"]
    /\ rag.searches[2] = [from |-> "text", rows |-> "rows"]
    /\ rag.formatted_context = <<"CHARITY DATABASE INFORMATION:", "text">>

\* C29: every run of rag_query returns a dict, and the dict holds the keys
\* "answer" and "context", so that the dashboard displays it without a
\* KeyError.
C29_ResponseHasKeysRead ==
    /\ rag.pc \in {"returned", "displayed"}
         => {"answer", "context"} \subseteq DOMAIN rag.response
    /\ rag.display # "KeyError"

\* the history alternates user, assistant, from a user message on
Alternates(messages) ==
    /\ Len(messages) % 2 = 0
    /\ \A i \in 1..Len(messages) :
           messages[i].role = IF i % 2 = 1 THEN "user" ELSE "assistant"

\* the step appends one user message and one assistant message
AppendsOnePair ==
    /\ Len(session'.messages) = Len(session.messages) + 2
    /\ SubSeq(session'.messages, 1, Len(session.messages)) = session.messages
    /\ session'.messages[Len(session.messages) + 1].role = "user"
    /\ session'.messages[Len(session.messages) + 2].role = "assistant"

\* C30: the chat history always alternates user, assistant, starting with a
\* user message; a Send with a message appends one user message and one
\* assistant message, also when the query failed; a Send without a message
\* leaves the history as it is; Clear Chat empties it.
C30_HistoryAlternates ==
    /\ [](Alternates(session.messages))
    /\ [][CASE session'.event = "send" -> AppendsOnePair
            [] session'.event = "send_empty" -> session'.messages = session.messages
            [] session'.event = "clear" -> session'.messages = <<>>
            [] OTHER -> TRUE]_vars

C30_Witness ==
    /\ session.event = "send"
    /\ Len(session.messages) = 4
    /\ session.messages[2].content
         = <<"I encountered an error while processing your question. Please try again or rephrase your question.">>
    /\ session.messages[4].content = <<"response.text">>

====
